---- MODULE Spec2Model ----
(***************************************************************************)
(* node-couchdb: the request wrapper with its ETag cache                   *)
(* (src/lib/node-couchdb.js, the promise based client, lines 400-998).     *)
(*                                                                         *)
(* A call of a public operation is followed through its asynchronous       *)
(* steps: the cache lookup (cache.get), the HTTP request, the handler of   *)
(* the response (the operation's then callback, with its cache.set).       *)
(* The cache collaborator and the CouchDB server are the environment.      *)
(*                                                                         *)
(* Abstractions.  md5 is taken to be injective: a cache key is the string  *)
(* that is hashed, kept as the pair <<url, stringified query>>.  A falsy   *)
(* JavaScript value (undefined, null, "", 0, false) is the empty tuple     *)
(* <<>>; every other value is a non-empty tuple.                           *)
(***************************************************************************)
EXTENDS Integers, Sequences, FiniteSets, TLC

VARIABLES
    cache,      \* this._cache: the configured cache collaborator, or NoCache
    store,      \* contents of each cache collaborator: cache id -> key -> entry
    writes,     \* cache.set calls accepted by a collaborator and not yet completed
    ver,        \* the server: current version of the document and its attachment
    calls,      \* the calls of public operations, by order of invocation
    settled     \* the call whose promise was settled by the latest step, if any

vars == <<cache, store, writes, ver, calls, settled>>

(***************************************************************************)
(* Bounds                                                                  *)
(***************************************************************************)
\* calls of public operations in one behaviour of Spec
MaxCalls == 1
\* calls of get() and getAttachment() in one behaviour of SpecGets
MaxGets == 2
\* change lines the server sends on one change feed in SpecChanges
MaxLines == 3

(***************************************************************************)
(* Values                                                                  *)
(***************************************************************************)
Absent == <<>>          \* undefined / null / "" : every falsy value
Empty == <<>>           \* an empty (falsy) body
NoEtag == <<>>          \* no ETag header / no etag field
NoHeaders == <<>>       \* the request carries no header of its own
NoCache == "null"
CacheIds == {"A", "B"}

Truthy(x) == x # <<>>

DocUrl == "db/doc"
AttUrl == "db/doc/att"
AllDbsUrl == "_all_dbs"
UuidsUrl == "_uuids"
Urls == {DocUrl, AttUrl}

Versions == {"gone", "v1", "v2"}
LiveVersions == Versions \ {"gone"}
\* the docRevision handed to getAttachment(): none (the current one), or "v1"
Revs == {Absent, <<"v1">>}

EmptyQuery == <<>>
StartKey == <<"a">>
\* the query objects a caller passes to get(): none, or a view range
GetQueries == {EmptyQuery, <<"startkey", StartKey>>}

TransportErrors == {"ECONNREFUSED", "ETIMEDOUT"}
Statuses == {200, 201, 202, 304, 400, 401, 404, 409, 412, 500}
\* the server header of a response: <<product, major version>>, <<product>>
\* when it names no version, <<>> when the response has none
ServerHeaders == {<<"CouchDB", 1>>, <<"CouchDB", 2>>, <<"nginx", 1>>, <<"Apache">>, <<>>}

\* a field of the document handed to update(): <<is it present, its value>>;
\* absent (reads as undefined), present and falsy (""), present and truthy
FieldValues == {<<FALSE, <<>>>>, <<TRUE, <<>>>>, <<TRUE, <<"x">>>>}

NoMethod == ""
GetOps == {"get", "getAttachment", "listDatabases", "uniqid"}
WriteOps == {"createDatabase", "dropDatabase", "insert", "insertAttachment", "update",
             "del", "mango", "delAttachment", "updateFunction"}
Ops == GetOps \cup WriteOps

(***************************************************************************)
(* Request options built by the public operations                          *)
(***************************************************************************)
KEYS_TO_ENCODE == {"key", "keys", "startkey", "endkey"}

\* JSON.stringify
Stringify(x) == <<"json", x>>

\* EncodeQuery encoding every parameter
EncodeQueryEvery(q) == IF q # <<>> THEN <<q[1], Stringify(q[2])>> ELSE q

\* the loop over the query's properties in get() and mango(); a query is
\* <<>> or one <<parameter, value>> pair
EncodeQuery(q) ==
    IF q # <<>> /\ q[1] \in KEYS_TO_ENCODE THEN <<q[1], Stringify(q[2])>> ELSE q

\* an options object: the properties the request wrapper and the `request`
\* library read.  No operation sets a `query` property (they set `qs`).
Opts(method, url, qs) == [method |-> method, url |-> url, qs |-> qs, query |-> Absent]

ListDatabasesOpts == Opts(NoMethod, AllDbsUrl, EmptyQuery)
GetOpts(url, query) == Opts(NoMethod, url, EncodeQuery(query))
GetAttachmentOpts(rev) == Opts("GET", AttUrl, <<"rev", rev>>)
UniqidOpts == Opts(NoMethod, UuidsUrl, <<"count", <<"1">>>>)

CreateDatabaseOpts == Opts("PUT", "db", EmptyQuery)
DropDatabaseOpts == Opts("DELETE", "db/", EmptyQuery)
InsertOpts == Opts("POST", "db", EmptyQuery)
\* the URL ends in the literal path segment "attachment"
InsertAttachmentOpts(rev) == Opts("PUT", "db/doc/attachment", <<"rev", rev>>)
UpdateOpts == Opts("PUT", DocUrl, EmptyQuery)
DelOpts(rev) == Opts("DELETE", DocUrl, <<"rev", rev>>)
MangoOpts(query) == Opts("POST", "db/_find", EncodeQuery(query))
DelAttachmentOpts(rev) == Opts("DELETE", AttUrl, <<"rev", rev>>)
\* UpdateFunctionOpts without the test of docId
UpdateFunctionOptsPost(docId) == Opts("POST", "db/_design/d/_update/f", EmptyQuery)

UpdateFunctionOpts(docId) ==
    IF Truthy(docId)
    THEN Opts("PUT", "db/_design/d/_update/f/doc", EmptyQuery)
    ELSE Opts("POST", "db/_design/d/_update/f", EmptyQuery)

(***************************************************************************)
(* The request wrapper's pure parts                                        *)
(***************************************************************************)
\* _getCacheKey: md5(`${requestOpts.url}?${JSON.stringify(requestOpts.query || {})}`)
_getCacheKey(requestOpts) ==
    <<requestOpts.url,
      Stringify(IF Truthy(requestOpts.query) THEN requestOpts.query ELSE EmptyQuery)>>

\* SkipsCache without the test of the method
SkipsCacheWhateverMethod(cacheRef, opts) == cacheRef = NoCache

\* !this._cache || (opts.method && opts.method !== 'GET')
SkipsCache(cacheRef, opts) ==
    cacheRef = NoCache \/ (opts.method # NoMethod /\ opts.method # "GET")

\* RequestHeaders without the test of the etag
RequestHeadersAlways(etag) == <<etag>>

\* if (etag) { opts.headers = opts.headers || {}; opts.headers['if-none-match'] = etag }
\* the request's headers: none, or <<the value of if-none-match>>
RequestHeaders(etag) == IF Truthy(etag) THEN <<etag>> ELSE NoHeaders

\* EffectiveBody without the fallback to the cached body
EffectiveBodyOfResponse(body, cacheBody) == body

\* body: body || cacheBody
EffectiveBody(body, cacheBody) == IF Truthy(body) THEN body ELSE cacheBody

(***************************************************************************)
(* Outcomes of a call and the operations' response handlers                *)
(***************************************************************************)
Resolved(data, status) == [state |-> "resolved", code |-> "", data |-> data, status |-> status]
\* a rejection: the error's code and, for a RequestError, its body
Rejected(code, body) == [state |-> "rejected", code |-> code, data |-> body, status |-> 0]
Pending == [state |-> "pending", code |-> "", data |-> Empty, status |-> 0]

\* the error a throwing cache.set raises, the error a rejecting cache.get gives
CacheSetError == "ECACHESET"
CacheGetError == "ECACHEGET"
SetResults == {"accepted", "throws", "rejects"}

\* _checkDocumentManipulationStatus: the code it throws with, "" when it returns
_checkDocumentManipulationStatus(statusCode) ==
    CASE statusCode = 400 -> "EBADREQUEST"
      [] statusCode = 401 -> "EUNAUTHORIZED"
      [] statusCode = 404 -> "EDOCMISSING"
      [] statusCode = 409 -> "EDOCCONFLICT"
      [] OTHER -> ""

\* _checkServerVersion(serverHeader, minServerVersion): the code it throws with
_checkServerVersion(serverHeader, minServerVersion) ==
    IF serverHeader = <<>> THEN "TypeError"
    ELSE IF serverHeader[1] # "CouchDB" THEN "ESERVERNOTSUPPORTED"
    ELSE IF serverHeader[2] < minServerVersion THEN "ESERVEROLD"
    ELSE ""

\* GetCallsSet without the test of this._cache
GetCallsSetWhateverCache(statusCode, cacheNow) == statusCode = 200

\* get() and getAttachment(): whether the handler reaches and calls cache.set
GetCallsSet(statusCode, cacheNow) == statusCode = 200 /\ cacheNow # NoCache

\* GetThen returning the promise of cache.set: the caller waits for the write
GetThenAwaitingSet(res, body, cacheNow, setResult) ==
    IF res.status = 404 THEN Rejected("EDOCMISSING", body)
    ELSE IF res.status # 200 /\ res.status # 304 THEN Rejected("EUNKNOWN", body)
    ELSE IF GetCallsSet(res.status, cacheNow) /\ setResult = "throws"
         THEN Rejected(CacheSetError, Empty)
    ELSE IF GetCallsSet(res.status, cacheNow) THEN Pending
    ELSE Resolved(body, res.status)

\* GetThen without the test of status 404
GetThenUnknownOn404(res, body, cacheNow, setResult) ==
    IF res.status # 200 /\ res.status # 304 THEN Rejected("EUNKNOWN", body)
    ELSE IF GetCallsSet(res.status, cacheNow) /\ setResult = "throws"
         THEN Rejected(CacheSetError, Empty)
    ELSE Resolved(body, res.status)

\* get() and getAttachment(): the then callback
GetThen(res, body, cacheNow, setResult) ==
    IF res.status = 404 THEN Rejected("EDOCMISSING", body)
    ELSE IF res.status # 200 /\ res.status # 304 THEN Rejected("EUNKNOWN", body)
    ELSE IF GetCallsSet(res.status, cacheNow) /\ setResult = "throws"
         THEN Rejected(CacheSetError, Empty)
    ELSE Resolved(body, res.status)

ListDatabasesThen(body) == Resolved(body, 0)

\* body.uuids
UniqidThen(body) == IF Truthy(body) THEN Resolved(<<"uuids">>, 0) ELSE Rejected("TypeError", Empty)

\* CreateDatabaseThen without the tests of 412, 401 and 400
CreateDatabaseThenUnknownOnly(res, body) ==
    IF res.status # 201 THEN Rejected("EUNKNOWN", body) ELSE Resolved(Empty, 0)

CreateDatabaseThen(res, body) ==
    CASE res.status = 412 -> Rejected("EDBEXISTS", body)
      [] res.status = 401 -> Rejected("ENOTADMIN", body)
      [] res.status = 400 -> Rejected("EBADREQUEST", body)
      [] res.status # 201 -> Rejected("EUNKNOWN", body)
      [] OTHER -> Resolved(Empty, 0)

DropDatabaseThen(res, body) ==
    CASE res.status = 404 -> Rejected("EDBMISSING", body)
      [] res.status = 401 -> Rejected("ENOTADMIN", body)
      [] res.status # 200 -> Rejected("EUNKNOWN", body)
      [] OTHER -> Resolved(Empty, 0)

\* insert() and update()
InsertThen(res, body) ==
    IF _checkDocumentManipulationStatus(res.status) # ""
    THEN Rejected(_checkDocumentManipulationStatus(res.status), body)
    ELSE IF res.status # 201 /\ res.status # 202 THEN Rejected("EUNKNOWN", body)
    ELSE Resolved(body, res.status)

InsertAttachmentThen(res, body) ==
    IF res.status = 409 THEN Rejected("EDOCCONFLICT", body) ELSE Resolved(body, res.status)

DelThen(res, body) ==
    IF _checkDocumentManipulationStatus(res.status) # ""
    THEN Rejected(_checkDocumentManipulationStatus(res.status), body)
    ELSE IF res.status # 200 THEN Rejected("EUNKNOWN", body)
    ELSE Resolved(body, res.status)

\* MangoThen testing the status before the server version
MangoThenStatusFirst(res, body) ==
    IF res.status = 404 THEN Rejected("EDOCMISSING", body)
    ELSE IF res.status # 200 /\ res.status # 304 THEN Rejected("EUNKNOWN", body)
    ELSE IF _checkServerVersion(res.server, 2) # "" THEN Rejected(_checkServerVersion(res.server, 2), Empty)
    ELSE Resolved(body, res.status)

MangoThen(res, body) ==
    IF _checkServerVersion(res.server, 2) # "" THEN Rejected(_checkServerVersion(res.server, 2), Empty)
    ELSE IF res.status = 404 THEN Rejected("EDOCMISSING", body)
    ELSE IF res.status # 200 /\ res.status # 304 THEN Rejected("EUNKNOWN", body)
    ELSE Resolved(body, res.status)

DelAttachmentThen(res, body) ==
    IF res.status = 404 THEN Rejected("EDOCMISSING", body)
    ELSE IF res.status # 200 THEN Rejected("EUNKNOWN", body)
    ELSE Resolved(body, res.status)

UpdateFunctionThen(res, body) ==
    IF res.status = 404 THEN Rejected("EDOCMISSING", body)
    ELSE IF res.status \notin {200, 201, 202} THEN Rejected("EUNKNOWN", body)
    ELSE Resolved(body, res.status)

\* Then leaving the promise pending where the callback throws
ThenPendingOnThrow(op, res, body, cacheNow, setResult) ==
    IF op = "listDatabases" THEN Resolved(body, 0)
    ELSE IF res.status \in {200, 201, 202, 304} /\ op \in {"get", "getAttachment", "insert", "update"}
         THEN Resolved(body, res.status)
    ELSE Pending

\* the then callback of operation op on the wrapper's {res, body}
Then(op, res, body, cacheNow, setResult) ==
    CASE op \in {"get", "getAttachment"} -> GetThen(res, body, cacheNow, setResult)
      [] op = "listDatabases" -> ListDatabasesThen(body)
      [] op = "uniqid" -> UniqidThen(body)
      [] op = "createDatabase" -> CreateDatabaseThen(res, body)
      [] op = "dropDatabase" -> DropDatabaseThen(res, body)
      [] op \in {"insert", "update"} -> InsertThen(res, body)
      [] op = "insertAttachment" -> InsertAttachmentThen(res, body)
      [] op = "del" -> DelThen(res, body)
      [] op = "mango" -> MangoThen(res, body)
      [] op = "delAttachment" -> DelAttachmentThen(res, body)
      [] OTHER -> UpdateFunctionThen(res, body)

\* whether operation op's then callback calls this._cache.set
CallsSet(op, res, cacheNow) ==
    op \in {"get", "getAttachment"} /\ GetCallsSet(res.status, cacheNow)

\* UpdateFieldMissing testing _id alone
UpdateFieldMissingIdOnly(data) == ~Truthy(data.id[2])

\* update(): !data._id || !data._rev
UpdateFieldMissing(data) == ~Truthy(data.id[2]) \/ ~Truthy(data.rev[2])

\* RequestCallback rejecting with an error of its own
RequestCallbackWrapping(err) == IF err = "" THEN "" ELSE "EUNKNOWN"

\* the callback handed to the `request` library: reject(err) or resolve({res, body})
\* "" when the wrapper's promise resolves, else the error it rejects with
RequestCallback(err) == err

(***************************************************************************)
(* The environment: the CouchDB server and the cache collaborators         *)
(***************************************************************************)
\* the version of the representation a request is served: the requested
\* revision when the query names one, else the current version
RepVer(qs, v) == IF qs # <<>> /\ qs[1] = "rev" /\ Truthy(qs[2]) THEN qs[2][1] ELSE v

\* the server sends no ETag with a range query over a view
ETagOf(url, qs, v) ==
    IF qs # <<>> /\ qs[1] = "startkey" THEN NoEtag ELSE <<url, RepVer(qs, v)>>

\* version v2 of the attachment is empty
BodyOf(url, qs, v) ==
    IF url = AttUrl /\ RepVer(qs, v) = "v2" THEN Empty
    ELSE IF qs # <<>> /\ qs[1] = "startkey" THEN <<url, v, "rows">>
    ELSE <<url, RepVer(qs, v)>>

Res(status, etag, body, server, v) ==
    [err |-> "", status |-> status, etag |-> etag, body |-> body, server |-> server, ver |-> v]
TransportFailure(e) ==
    [err |-> e, status |-> 0, etag |-> NoEtag, body |-> Empty, server |-> <<>>, ver |-> ""]
NoRes == TransportFailure("")

CouchDB2 == <<"CouchDB", 2>>
ErrorBody == <<"error">>

\* the answers of the server to a GET: 304 without a body when the request's
\* if-none-match is the current ETag of the resource
GetAnswers(opts, headers) ==
    IF opts.url \in Urls
    THEN LET v == ver
             e == ETagOf(opts.url, opts.qs, v)
         IN  { IF v = "gone" THEN Res(404, NoEtag, ErrorBody, CouchDB2, v)
               ELSE IF Truthy(e) /\ headers = <<e>>
                    THEN Res(304, e, Empty, CouchDB2, RepVer(opts.qs, v))
               ELSE Res(200, e, BodyOf(opts.url, opts.qs, v), CouchDB2, RepVer(opts.qs, v)),
               Res(500, NoEtag, ErrorBody, CouchDB2, v) }
    ELSE { Res(200, NoEtag, <<"list">>, CouchDB2, "v1"),
           Res(500, NoEtag, ErrorBody, CouchDB2, "v1") }

\* the answers of the server to the other requests: any status; a document
\* that is gone cannot be deleted
WriteAnswers(op) ==
    { Res(st, NoEtag, IF st \in {200, 201, 202} THEN <<"ok">> ELSE ErrorBody, sv, "v1") :
        st \in IF op = "del" /\ ver = "gone" THEN Statuses \ {200} ELSE Statuses,
        sv \in IF op = "mango" THEN ServerHeaders ELSE {CouchDB2} }

ServerAnswers(op, opts, headers) ==
    { TransportFailure(e) : e \in TransportErrors }
    \cup (IF op \in GetOps THEN GetAnswers(opts, headers) ELSE WriteAnswers(op))

\* a successful del() removes the document and its attachment
ServerAfter(op, res) ==
    IF op = "del" /\ res.err = "" /\ res.status = 200
    THEN "gone"
    ELSE ver

\* a cache entry {etag, body}; `by` is history, not read by the client: the
\* request that wrote the entry, the version it was served and the data
\* its caller got
NoBy == [url |-> "", qs |-> <<>>, ver |-> "", data |-> Empty]
Entry(etag, body, by) == [found |-> TRUE, etag |-> etag, body |-> body, by |-> by]
\* cache.get's null, and the {} the wrapper uses when it skips the cache
NoEntry == [found |-> FALSE, etag |-> NoEtag, body |-> Empty, by |-> NoBy]

CacheableOpts ==
    {GetOpts(DocUrl, q) : q \in GetQueries}
    \cup {GetAttachmentOpts(r) : r \in Revs} \cup {ListDatabasesOpts, UniqidOpts}
OtherOpts ==
    {CreateDatabaseOpts, DropDatabaseOpts, InsertOpts, InsertAttachmentOpts(<<"v1">>),
     UpdateOpts, DelOpts(<<"v1">>), MangoOpts(EmptyQuery), DelAttachmentOpts(<<"v1">>)}
    \cup {UpdateFunctionOpts(d) : d \in {Absent, <<"doc">>}}
\* the keys a collaborator can be asked about
Keys == {_getCacheKey(o) : o \in CacheableOpts \cup OtherOpts}
EmptyStore == [k \in Keys |-> NoEntry]

(***************************************************************************)
(* Calls                                                                   *)
(***************************************************************************)
NoData == [id |-> <<FALSE, <<>>>>, rev |-> <<FALSE, <<>>>>]
NoOpts == Opts("", "", <<>>)

\* pc: "new" (not invoked), "lookup" (waits for whenCacheChecked), "http"
\* (request sent), "done" (promise settled)
Call(pc, op, opts, data, cache0, on, hit, headers) ==
    [pc |-> pc, op |-> op, opts |-> opts, data |-> data,
     cache0 |-> cache0,     \* this._cache when the operation was invoked
     on |-> on,             \* the cache cache.get was called on, if any
     hit |-> hit,           \* what cache.get gave
     headers |-> headers]   \* opts.headers of the request sent
Idle(pc) == Call(pc, "", NoOpts, NoData, NoCache, NoCache, NoEntry, NoHeaders)

NoSet == [called |-> FALSE, cache |-> NoCache, key |-> <<>>, entry |-> NoEntry, result |-> "none"]

\* what the caller and the collaborators saw of a call when it settled
Settled(c, sent, res, cacheThen, set, out) ==
    [op |-> c.op, opts |-> c.opts, data |-> c.data, cache0 |-> c.cache0, on |-> c.on,
     hit |-> c.hit,
     headers |-> c.headers,
     sent |-> sent,             \* HTTP requests sent for the call
     res |-> res,               \* the response or the transport failure
     cacheThen |-> cacheThen,   \* this._cache when the response was handled
     set |-> set,               \* the cache.set call of the handler
     out |-> out]               \* how the promise settled
NoSettled == Settled(Idle(""), 0, NoRes, NoCache, NoSet, Pending)

Inflight == {i \in DOMAIN calls : calls[i].pc \in {"lookup", "http"}}

\* what a collaborator that outlives the client (memcached, files) may hold
\* when the client is constructed: nothing, or an entry written by an
\* earlier get() or getAttachment() of a version of the document
WarmStores ==
    {EmptyStore} \cup
    { [EmptyStore EXCEPT ![_getCacheKey(o)] =
          Entry(ETagOf(o.url, o.qs, v), BodyOf(o.url, o.qs, v),
                [url |-> o.url, qs |-> o.qs, ver |-> RepVer(o.qs, v),
                 data |-> BodyOf(o.url, o.qs, v)])] :
        o \in {GetOpts(DocUrl, q) : q \in GetQueries} \cup {GetAttachmentOpts(r) : r \in Revs},
        v \in LiveVersions }

\* new NodeCouchDB(opts): opts.cache is a collaborator or null
Init ==
    /\ cache \in {NoCache, "A"}
    /\ store \in {[c \in CacheIds |-> IF c = "A" THEN w ELSE EmptyStore] : w \in WarmStores}
    /\ writes = {}
    /\ ver = "v1"
    /\ calls = [i \in 1..MaxCalls |-> Idle("new")]
    /\ settled = NoSettled

\* the client constructed with an empty collaborator or none
InitGets ==
    /\ cache \in {NoCache, "A"}
    /\ store = [c \in CacheIds |-> EmptyStore]
    /\ writes = {}
    /\ ver = "v1"
    /\ calls = [i \in 1..MaxGets |-> Idle("new")]
    /\ settled = NoSettled

\* _requestWrapped up to whenCacheChecked: the cache key, and cache.get on
\* the configured cache unless the cache is skipped
Begin(i, op, opts, data) ==
    /\ calls[i].pc = "new"
    /\ \A j \in 1..(i - 1) : calls[j].pc # "new"
    /\ Inflight = {}      \* the caller chains its calls
    /\ calls' = [calls EXCEPT ![i] =
            Call("lookup", op, opts, data, cache,
                 IF SkipsCache(cache, opts) THEN NoCache ELSE cache, NoEntry, NoHeaders)]
    /\ settled' = NoSettled
    /\ UNCHANGED <<cache, store, writes, ver>>

(***************************************************************************)
(* The public operations                                                   *)
(***************************************************************************)
listDatabases(i) == Begin(i, "listDatabases", ListDatabasesOpts, NoData)

createDatabase(i) == Begin(i, "createDatabase", CreateDatabaseOpts, NoData)

dropDatabase(i) == Begin(i, "dropDatabase", DropDatabaseOpts, NoData)

get(i) == \E q \in GetQueries : Begin(i, "get", GetOpts(DocUrl, q), NoData)

getAttachment(i) == \E r \in Revs : Begin(i, "getAttachment", GetAttachmentOpts(r), NoData)

insert(i) == Begin(i, "insert", InsertOpts, NoData)

insertAttachment(i) == Begin(i, "insertAttachment", InsertAttachmentOpts(<<"v1">>), NoData)

\* update(): without a truthy _id and _rev the promise is rejected at once
update(i) ==
    \E idF \in FieldValues, revF \in FieldValues :
        LET data == [id |-> idF, rev |-> revF]
        IN  IF UpdateFieldMissing(data)
            THEN /\ calls[i].pc = "new"
                 /\ \A j \in 1..(i - 1) : calls[j].pc # "new"
                 /\ Inflight = {}
                 /\ calls' = [calls EXCEPT ![i] = Idle("done")]
                 /\ settled' = Settled(Call("new", "update", NoOpts, data, cache, NoCache,
                                             NoEntry, NoHeaders),
                                        0, NoRes, cache, NoSet, Rejected("EFIELDMISSING", Empty))
                 /\ UNCHANGED <<cache, store, writes, ver>>
            ELSE Begin(i, "update", UpdateOpts, data)

del(i) == Begin(i, "del", DelOpts(<<"v1">>), NoData)

mango(i) == Begin(i, "mango", MangoOpts(EmptyQuery), NoData)

delAttachment(i) == Begin(i, "delAttachment", DelAttachmentOpts(<<"v1">>), NoData)

\* data.id records the docId argument: <<is it given, its value>>
updateFunction(i) ==
    \E docId \in {Absent, <<"doc">>} :
        Begin(i, "updateFunction", UpdateFunctionOpts(docId),
              [NoData EXCEPT !.id = <<Truthy(docId), docId>>])

uniqid(i) == Begin(i, "uniqid", UniqidOpts, NoData)

\* useCache without the try/catch: an invalidate() that throws (and the call
\* of invalidate on no cache) leaves the reference as it was
useCacheThrowing(c, emptied) ==
    /\ cache' = IF cache # NoCache /\ emptied THEN c ELSE cache
    /\ store' = IF cache # NoCache /\ emptied
                THEN [store EXCEPT ![cache] = EmptyStore]
                ELSE store
    /\ settled' = NoSettled
    /\ UNCHANGED <<writes, ver, calls>>

\* useCache(c): invalidate() of the old cache, whatever it throws swallowed;
\* invalidate may or may not empty the old cache
useCache(c, emptied) ==
    /\ cache' = c
    /\ store' = IF cache # NoCache /\ emptied
                THEN [store EXCEPT ![cache] = EmptyStore]
                ELSE store
    /\ settled' = NoSettled
    /\ UNCHANGED <<writes, ver, calls>>

(***************************************************************************)
(* _requestWrapped                                                         *)
(***************************************************************************)
\* whenCacheChecked.then(cache => ...): cache.get has answered (an entry or
\* null), or the cache was skipped ({}); the request is sent
WhenCacheChecked(i) ==
    /\ calls[i].pc = "lookup"
    /\ LET c == calls[i]
           found == IF c.on = NoCache THEN NoEntry ELSE store[c.on][_getCacheKey(c.opts)]
       IN  calls' = [calls EXCEPT ![i] =
                Call("http", c.op, c.opts, c.data, c.cache0, c.on, found,
                     RequestHeaders(found.etag))]
    /\ settled' = NoSettled
    /\ UNCHANGED <<cache, store, writes, ver>>

\* CacheGetRejects taking the rejection for a miss: the request is sent
CacheGetRejectsAsMiss(i) ==
    /\ calls[i].pc = "lookup"
    /\ calls[i].on # NoCache
    /\ LET c == calls[i]
       IN  calls' = [calls EXCEPT ![i] =
                Call("http", c.op, c.opts, c.data, c.cache0, c.on, NoEntry,
                     RequestHeaders(NoEntry.etag))]
    /\ settled' = NoSettled
    /\ UNCHANGED <<cache, store, writes, ver>>

\* cache.get rejects: whenCacheChecked rejects and nothing is sent
CacheGetRejects(i) ==
    /\ calls[i].pc = "lookup"
    /\ calls[i].on # NoCache
    /\ calls' = [calls EXCEPT ![i] = Idle("done")]
    /\ settled' = Settled(calls[i], 0, NoRes, cache, NoSet, Rejected(CacheGetError, Empty))
    /\ UNCHANGED <<cache, store, writes, ver>>

\* the callback of the request, then the operation's then callback
HttpRespond(i) ==
    /\ calls[i].pc = "http"
    /\ \E res \in ServerAnswers(calls[i].op, calls[i].opts, calls[i].headers) :
        LET c == calls[i]
            body == EffectiveBody(res.body, c.hit.body)
        IN  IF RequestCallback(res.err) # ""
            THEN /\ settled' = Settled(c, 1, res, cache, NoSet,
                                        Rejected(RequestCallback(res.err), Empty))
                 /\ UNCHANGED <<writes, ver>>
            ELSE \E sr \in IF CallsSet(c.op, res, cache) THEN SetResults ELSE {"none"} :
                 LET out == Then(c.op, res, body, cache, sr)
                     entry == Entry(res.etag, body,
                                    [url |-> c.opts.url, qs |-> c.opts.qs,
                                     ver |-> res.ver, data |-> out.data])
                     set == IF CallsSet(c.op, res, cache)
                            THEN [called |-> TRUE, cache |-> cache,
                                  key |-> _getCacheKey(c.opts), entry |-> entry,
                                  result |-> sr]
                            ELSE NoSet
                 IN  /\ settled' = Settled(c, 1, res, cache, set, out)
                     /\ writes' = IF sr = "accepted"
                                  THEN writes \cup {[cache |-> cache,
                                                     key |-> _getCacheKey(c.opts),
                                                     entry |-> entry]}
                                  ELSE writes
                     /\ ver' = ServerAfter(c.op, res)
    /\ calls' = [calls EXCEPT ![i] = Idle("done")]
    /\ UNCHANGED <<cache, store>>

\* the collaborator completes an accepted cache.set
CacheSetDone(w) ==
    /\ w \in writes
    /\ store' = [store EXCEPT ![w.cache][w.key] = w.entry]
    /\ writes' = writes \ {w}
    /\ settled' = NoSettled
    /\ UNCHANGED <<cache, ver, calls>>

\* another client changes or removes the document
ServerChange(v) ==
    /\ v # ver
    /\ ver' = v
    /\ settled' = NoSettled
    /\ UNCHANGED <<cache, store, writes, calls>>

Next ==
    \/ \E i \in DOMAIN calls : listDatabases(i)
    \/ \E i \in DOMAIN calls : createDatabase(i)
    \/ \E i \in DOMAIN calls : dropDatabase(i)
    \/ \E i \in DOMAIN calls : get(i)
    \/ \E i \in DOMAIN calls : getAttachment(i)
    \/ \E i \in DOMAIN calls : insert(i)
    \/ \E i \in DOMAIN calls : insertAttachment(i)
    \/ \E i \in DOMAIN calls : update(i)
    \/ \E i \in DOMAIN calls : del(i)
    \/ \E i \in DOMAIN calls : mango(i)
    \/ \E i \in DOMAIN calls : delAttachment(i)
    \/ \E i \in DOMAIN calls : updateFunction(i)
    \/ \E i \in DOMAIN calls : uniqid(i)
    \/ \E c \in CacheIds \cup {NoCache}, emptied \in BOOLEAN : useCache(c, emptied)
    \/ \E i \in DOMAIN calls : WhenCacheChecked(i)
    \/ \E i \in DOMAIN calls : CacheGetRejects(i)
    \/ \E i \in DOMAIN calls : HttpRespond(i)
    \/ \E w \in writes : CacheSetDone(w)
    \/ \E v \in Versions : ServerChange(v)

\* every operation, on a client whose collaborator may hold entries
Spec == Init /\ [][Next]_vars

NextGets ==
    \/ \E i \in DOMAIN calls : get(i)
    \/ \E i \in DOMAIN calls : getAttachment(i)
    \/ \E c \in CacheIds \cup {NoCache}, emptied \in BOOLEAN : useCache(c, emptied)
    \/ \E i \in DOMAIN calls : WhenCacheChecked(i)
    \/ \E i \in DOMAIN calls : CacheGetRejects(i)
    \/ \E i \in DOMAIN calls : HttpRespond(i)
    \/ \E w \in writes : CacheSetDone(w)
    \/ \E v \in Versions : ServerChange(v)

\* successive get() and getAttachment() calls, from an empty cache
SpecGets == InitGets /\ [][NextGets]_vars

\* the client with a collaborator that may hold entries; the document is
\* changed by this client alone
InitDel ==
    /\ cache \in {NoCache, "A"}
    /\ store \in {[c \in CacheIds |-> IF c = "A" THEN w ELSE EmptyStore] : w \in WarmStores}
    /\ writes = {}
    /\ ver = "v1"
    /\ calls = [i \in 1..MaxGets |-> Idle("new")]
    /\ settled = NoSettled

NextDel ==
    \/ \E i \in DOMAIN calls : get(i)
    \/ \E i \in DOMAIN calls : del(i)
    \/ \E c \in CacheIds \cup {NoCache}, emptied \in BOOLEAN : useCache(c, emptied)
    \/ \E i \in DOMAIN calls : WhenCacheChecked(i)
    \/ \E i \in DOMAIN calls : CacheGetRejects(i)
    \/ \E i \in DOMAIN calls : HttpRespond(i)
    \/ \E w \in writes : CacheSetDone(w)

\* get() and del() of one document
SpecDel == InitDel /\ [][NextDel]_vars

\* the parameters and the values a caller puts into the query of get()
QueryParams == KEYS_TO_ENCODE \cup {"startkey_docid", "limit"}
QueryValues == {<<"C">>, <<"Two">>, Empty}
Queries == {<<p, v>> : p \in QueryParams, v \in QueryValues}

\* the arguments of a call of get(): the query object the caller passed
QueryData(q) == [id |-> <<FALSE, <<>>>>, rev |-> <<FALSE, <<>>>>, query |-> q]

\* get(dbName, uri, query) with a query of one parameter
getQuery(i) == \E q \in Queries : Begin(i, "get", GetOpts(DocUrl, q), QueryData(q))

InitQuery ==
    /\ cache \in {NoCache, "A"}
    /\ store = [c \in CacheIds |-> EmptyStore]
    /\ writes = {}
    /\ ver = "v1"
    /\ calls = [i \in 1..MaxCalls |-> Idle("new")]
    /\ settled = NoSettled

NextQuery ==
    \/ \E i \in DOMAIN calls : getQuery(i)
    \/ \E i \in DOMAIN calls : WhenCacheChecked(i)
    \/ \E i \in DOMAIN calls : CacheGetRejects(i)
    \/ \E i \in DOMAIN calls : HttpRespond(i)
    \/ \E w \in writes : CacheSetDone(w)

\* get() over the queries of a view
SpecQuery == InitQuery /\ [][NextQuery]_vars

\* get(dbName, uri, query) in the continuation of a get(): the caller passes
\* the query object it passed to that call, as the call's loop left it
\* (requestOpts.qs is that very object)
getSameQuery(i) ==
    /\ settled.op = "get"
    /\ Begin(i, "get", GetOpts(DocUrl, settled.opts.qs), QueryData(settled.opts.qs))

InitSameQuery ==
    /\ cache \in {NoCache, "A"}
    /\ store = [c \in CacheIds |-> EmptyStore]
    /\ writes = {}
    /\ ver = "v1"
    /\ calls = [i \in 1..MaxGets |-> Idle("new")]
    /\ settled = NoSettled

NextSameQuery ==
    \/ \E i \in DOMAIN calls : getQuery(i)
    \/ \E i \in DOMAIN calls : getSameQuery(i)
    \/ \E i \in DOMAIN calls : WhenCacheChecked(i)
    \/ \E i \in DOMAIN calls : CacheGetRejects(i)
    \/ \E i \in DOMAIN calls : HttpRespond(i)
    \/ \E w \in writes : CacheSetDone(w)

\* successive get() calls, with a fresh query object or the one of the
\* call before
SpecSameQuery == InitSameQuery /\ [][NextSameQuery]_vars

(***************************************************************************)
(* The change feed (src/lib/node-couchdb.js, lines 1379-1415, 1507-1572)   *)
(***************************************************************************)
\* the null change of the handler's first invocation; the changes the
\* server sends are numbered 1, 2, ... in the order of their lines
NoChange == 0

\* this._auth: null when the client is constructed without auth, an object
\* without a user, an object with user and pass
Auths == {"null", "nouser", "user"}

\* a call of changes(): pc is "new", "open" (request sent), "aborted"
\* (unsubscribe() has aborted the request) or "failed"
Feed(pc, auth, text, partial, handled, unsubAt, out) ==
    [pc |-> pc, auth |-> auth,
     text |-> text,         \* the complete lines of httpRequest.responseText
     partial |-> partial,   \* responseText ends with a part of the next line
     handled |-> handled,   \* the changes the handler was invoked with, in order
     unsubAt |-> unsubAt,   \* Len(handled) when unsubscribe() was called, 0 before
     out |-> out]           \* the promise changes() returned

\* a line that JSON.parse rejects: the part of a line a chunk ends with
Unparsable == -1

\* httpRequest.responseText split into its lines: everything received so far
ResponseLines(text, partial) == text \o (IF partial THEN <<Unparsable>> ELSE <<>>)

\* json.split('\n').filter(...).forEach(...): the lines that parse, each of
\* which the handler is invoked with; the others are dropped
ParsedLines(lines) == SelectSeq(lines, LAMBDA line : line # Unparsable)

\* changes() and the executor of _handleChangesRequest.  The handler may
\* call context.unsubscribe() while it is invoked with the null change.
changes(i) ==
    /\ calls[i].pc = "new"
    /\ \A j \in 1..(i - 1) : calls[j].pc # "new"
    /\ IF calls[i].auth = "null"
       THEN \* this._auth.user of null: the executor throws before send()
            calls' = [calls EXCEPT ![i] =
                Feed("failed", "null", <<>>, FALSE, <<>>, 0, Rejected("TypeError", Empty))]
       ELSE \E unsub \in BOOLEAN :
            calls' = [calls EXCEPT ![i] =
                Feed(IF unsub THEN "aborted" ELSE "open", calls[i].auth, <<>>, FALSE,
                     <<NoChange>>, IF unsub THEN 1 ELSE 0, Resolved(Empty, 200))]
    /\ UNCHANGED <<cache, store, writes, ver, settled>>

\* a chunk arrives (readyState 3): n lines are completed by it and it may
\* end within a line; OnStateChange invokes the handler with every line of
\* responseText that parses; the handler may call unsubscribe() in its
\* u-th invocation
OnStateChange(i) ==
    /\ calls[i].pc = "open"
    /\ \E n \in 0..(MaxLines - Len(calls[i].text)), partial \in BOOLEAN :
        LET c == calls[i]
            text == c.text \o [k \in 1..n |-> Len(c.text) + k]
        IN  /\ n > 0 \/ (partial /\ ~c.partial)
            /\ partial => Len(text) < MaxLines
            /\ \E u \in 0..Len(ParsedLines(ResponseLines(text, partial))) :
                 calls' = [calls EXCEPT ![i] =
                     Feed(IF u > 0 THEN "aborted" ELSE "open", c.auth, text, partial,
                          c.handled \o ParsedLines(ResponseLines(text, partial)),
                          IF u > 0 THEN Len(c.handled) + u ELSE 0, c.out)]
    /\ UNCHANGED <<cache, store, writes, ver, settled>>

\* context.unsubscribe() called by the caller outside the handler
unsubscribe(i) ==
    /\ calls[i].pc = "open"
    /\ calls' = [calls EXCEPT ![i].pc = "aborted", ![i].unsubAt = Len(calls[i].handled)]
    /\ UNCHANGED <<cache, store, writes, ver, settled>>

\* new NodeCouchDB(opts) with or without opts.auth
InitChanges ==
    /\ cache = NoCache
    /\ store = [c \in CacheIds |-> EmptyStore]
    /\ writes = {}
    /\ ver = "v1"
    /\ \E a \in Auths :
          calls = [i \in 1..MaxCalls |-> Feed("new", a, <<>>, FALSE, <<>>, 0, Pending)]
    /\ settled = NoSettled

NextChanges ==
    \/ \E i \in DOMAIN calls : changes(i)
    \/ \E i \in DOMAIN calls : OnStateChange(i)
    \/ \E i \in DOMAIN calls : unsubscribe(i)

\* subscriptions to the change feed
SpecChanges == InitChanges /\ [][NextChanges]_vars

\* cache.get settles: its promise resolves with an entry or null, or rejects
CacheGetSettles == \E i \in DOMAIN calls : WhenCacheChecked(i) \/ CacheGetRejects(i)
\* the `request` library calls back with a response or with an error
TransportAnswers == \E i \in DOMAIN calls : HttpRespond(i)

\* the client with a transport that answers or fails every request and a
\* cache collaborator whose get settles
NextLive ==
    \/ \E i \in DOMAIN calls : listDatabases(i)
    \/ \E i \in DOMAIN calls : createDatabase(i)
    \/ \E i \in DOMAIN calls : dropDatabase(i)
    \/ \E i \in DOMAIN calls : get(i)
    \/ \E i \in DOMAIN calls : getAttachment(i)
    \/ \E i \in DOMAIN calls : insert(i)
    \/ \E i \in DOMAIN calls : insertAttachment(i)
    \/ \E i \in DOMAIN calls : update(i)
    \/ \E i \in DOMAIN calls : del(i)
    \/ \E i \in DOMAIN calls : mango(i)
    \/ \E i \in DOMAIN calls : delAttachment(i)
    \/ \E i \in DOMAIN calls : updateFunction(i)
    \/ \E i \in DOMAIN calls : uniqid(i)
    \/ \E c \in {NoCache} \cup CacheIds : useCache(c, FALSE)
    \/ CacheGetSettles
    \/ TransportAnswers
    \/ \E w \in writes : CacheSetDone(w)

SpecLive ==
    Init /\ [][NextLive]_vars /\ WF_vars(CacheGetSettles) /\ WF_vars(TransportAnswers)

(***************************************************************************)
(* Properties                                                              *)
(***************************************************************************)
Getters == {"get", "getAttachment"}
Answered == settled.op # "" /\ settled.sent = 1 /\ settled.res.err = ""
\* the entry was written by a request with the call's URL and query
OwnEntry(c) == c.hit.found /\ c.hit.by.url = c.opts.url /\ c.hit.by.qs = c.opts.qs

\* C1: cache round trip.  When get(db, id) finds the entry an earlier
\* get(db, id) wrote on its 200 response, and the server serves the document
\* in the version it had then, the call resolves with status 304 and with the
\* data the earlier get resolved with.
C1_RoundTrip ==
    ( /\ Answered
      /\ settled.op = "get" /\ settled.opts.qs = EmptyQuery
      /\ OwnEntry(settled)
      /\ settled.res.status \in {200, 304}
      /\ settled.res.ver = settled.hit.by.ver )
    => /\ settled.out.state = "resolved"
       /\ settled.out.status = 304
       /\ settled.out.data = settled.hit.by.data

C1_Witness ==
    /\ Answered
    /\ settled.op = "get" /\ settled.opts.qs = EmptyQuery
    /\ OwnEntry(settled)
    /\ settled.res.ver = settled.hit.by.ver
    /\ settled.out.status = 304
    /\ Truthy(settled.out.data)
    /\ settled.out.data = settled.hit.by.data

\* C2: the cache key separates requests that differ in URL or query: a
\* lookup never gives a call the entry of another request, and a write
\* never replaces the entry of another request.
C2_KeyPerRequest ==
    /\ \A i \in DOMAIN calls :
          (calls[i].pc = "http" /\ calls[i].hit.found) => OwnEntry(calls[i])
    /\ \A w \in writes :
          store[w.cache][w.key].found =>
              /\ store[w.cache][w.key].by.url = w.entry.by.url
              /\ store[w.cache][w.key].by.qs = w.entry.by.qs

\* C3: for every status but 304 the body handed to the caller of get() or
\* getAttachment(), and the body written to the cache, is the body of the
\* response as received.
C3_NetworkBodyUnless304 ==
    ( /\ Answered
      /\ settled.op \in Getters
      /\ settled.out.code # CacheSetError
      /\ settled.res.status # 304 )
    => /\ settled.out.data = settled.res.body
       /\ settled.set.called => settled.set.entry.body = settled.res.body

\* C4: every GET of get, getAttachment, listDatabases and uniqid
\* that receives 200 while a cache is configured calls cache.set with
\* {etag: the response's ETag, body: the response's body}, and no other
\* status leads to a cache.set.
C4_SetOnEvery200 ==
    Answered =>
      /\ ( settled.op \in GetOps /\ settled.res.status = 200
           /\ settled.cacheThen # NoCache )
         => /\ settled.set.called
            /\ settled.set.key = _getCacheKey(settled.opts)
            /\ settled.set.entry.etag = settled.res.etag
            /\ settled.set.entry.body = settled.res.body
      /\ settled.set.called => settled.res.status = 200

\* a GET request of a client with a cache configured when it was invoked
LooksUp(c) == c.opts.method \in {NoMethod, "GET"} /\ c.cache0 # NoCache

\* C5 as claimed: the lookup precedes the request; on a hit the request
\* carries if-none-match with the entry's etag, on a miss no header.
C5_HeaderOnEveryHit ==
    \A i \in DOMAIN calls :
        (calls[i].pc \in {"lookup", "http"} /\ LooksUp(calls[i])) =>
            /\ calls[i].on = calls[i].cache0
            /\ calls[i].pc = "http" =>
                  calls[i].headers =
                      (IF calls[i].hit.found THEN <<calls[i].hit.etag>> ELSE NoHeaders)

\* C5 amended: the lookup precedes the request; on a hit whose entry has an
\* etag the request carries if-none-match with that etag; on a miss, and on
\* a hit whose entry has no etag, it carries no if-none-match.
C5_HeaderOnHitWithEtag ==
    \A i \in DOMAIN calls :
        (calls[i].pc \in {"lookup", "http"} /\ LooksUp(calls[i])) =>
            /\ calls[i].on = calls[i].cache0
            /\ calls[i].pc = "http" =>
                  calls[i].headers =
                      (IF calls[i].hit.found /\ Truthy(calls[i].hit.etag)
                       THEN <<calls[i].hit.etag>> ELSE NoHeaders)

C5_Witness ==
    \E i \in DOMAIN calls :
        /\ calls[i].pc = "http" /\ LooksUp(calls[i])
        /\ calls[i].hit.found /\ Truthy(calls[i].hit.etag)
        /\ calls[i].headers = <<calls[i].hit.etag>>

\* what a step of call i leaves of the call: its record while it is in
\* flight, the record of its settlement when the step settles it
C6_After(i) == IF calls'[i].pc = "done" THEN settled' ELSE calls'[i]

\* a step of a call that issues a non-GET request, or of any call invoked
\* and carried on while no cache is configured
C6_Concerned(i) ==
    \/ C6_After(i).op \in WriteOps
    \/ C6_After(i).cache0 = NoCache /\ cache = NoCache /\ cache' = NoCache

\* C6: the operations that issue a non-GET request, and every operation
\* while no cache is configured, never call cache.get or cache.set, never
\* send if-none-match, and leave the caches' contents unchanged.
C6_NoCacheAccess ==
    [][ \A i \in DOMAIN calls :
          (calls'[i] # calls[i] /\ C6_Concerned(i)) =>
              /\ C6_After(i).on = NoCache
              /\ ~C6_After(i).hit.found
              /\ C6_After(i).headers = NoHeaders
              /\ calls'[i].pc = "done" => ~settled'.set.called
              /\ store' = store
              /\ writes' = writes ]_vars

C6_Witness ==
    /\ Answered
    /\ settled.op \in WriteOps
    /\ settled.cache0 # NoCache /\ settled.cacheThen = settled.cache0
    /\ \E k \in Keys : store[settled.cache0][k].found
    /\ settled.on = NoCache /\ ~settled.set.called

\* the write a settled call handed to cache.set
C7_Write == [cache |-> settled.set.cache, key |-> settled.set.key, entry |-> settled.set.entry]

\* C7: the cache write after a 200 GET is fire-and-forget: when cache.set
\* has taken the entry, get() is resolved with status 200 while the write is
\* still to be completed by the cache, whether or not it ever completes.
C7_FireAndForget ==
    ( /\ Answered
      /\ settled.op \in Getters
      /\ settled.set.called /\ settled.set.result = "accepted" )
    => /\ settled.out.state = "resolved"
       /\ settled.out.status = 200
       /\ C7_Write \in writes

\* get() has resolved and the entry is not yet visible in the cache
C7_Witness ==
    /\ Answered
    /\ settled.op = "get"
    /\ settled.set.called /\ settled.set.result = "accepted"
    /\ settled.out.state = "resolved"
    /\ C7_Write \in writes
    /\ store[settled.set.cache][settled.set.key] # settled.set.entry

\* C8: a failure of the cache write never fails the response: when a GET
\* receives 200 and cache.set throws or returns a rejected promise, get()
\* and getAttachment() resolve with the data and the status of the response.
C8_SetFailureNeverFails ==
    ( /\ Answered
      /\ settled.op \in Getters
      /\ settled.res.status = 200
      /\ settled.set.called /\ settled.set.result \in {"throws", "rejects"} )
    => /\ settled.out.state = "resolved"
       /\ settled.out.status = 200

\* C9: when the transport reports an error the operation rejects with that
\* error unchanged, one HTTP request was attempted for the call, and no
\* cache.set is performed.
C9_TransportError ==
    (settled.op # "" /\ settled.res.err # "")
    => /\ settled.res.err \in TransportErrors
       /\ settled.out = Rejected(settled.res.err, Empty)
       /\ settled.sent = 1
       /\ ~settled.set.called

C9_Witness ==
    /\ settled.op = "get"
    /\ settled.on # NoCache /\ settled.hit.found
    /\ settled.res.err = "ETIMEDOUT"
    /\ settled.out = Rejected("ETIMEDOUT", Empty)
    /\ settled.sent = 1

\* update() failed before any HTTP request and any cache access
C10_FailedLocally ==
    /\ settled.out.state = "rejected" /\ settled.out.code = "EFIELDMISSING"
    /\ settled.sent = 0 /\ settled.res = NoRes
    /\ settled.on = NoCache /\ ~settled.set.called

\* update() issued one PUT request
C10_OnePut ==
    /\ settled.sent = 1 /\ settled.opts.method = "PUT"
    /\ settled.out.code # "EFIELDMISSING"

\* C10 as claimed: update() rejects with EFIELDMISSING, without a request
\* or a cache access, exactly when data has no _id field or no _rev field;
\* with both fields, whatever their values, one PUT request is issued.
C10_FieldsPresent ==
    settled.op = "update" =>
        IF settled.data.id[1] /\ settled.data.rev[1] THEN C10_OnePut ELSE C10_FailedLocally

\* C10 amended: update() rejects with EFIELDMISSING, without a request or
\* a cache access, exactly when _id or _rev is absent or falsy (undefined,
\* null, the empty string, 0, false); when both are truthy one PUT request
\* is issued.
C10_FieldsTruthy ==
    /\ settled.op = "update" =>
          IF Truthy(settled.data.id[2]) /\ Truthy(settled.data.rev[2])
          THEN C10_OnePut ELSE C10_FailedLocally
    /\ \A i \in DOMAIN calls :
          calls[i].op = "update" =>
              Truthy(calls[i].data.id[2]) /\ Truthy(calls[i].data.rev[2])

\* _id is present and falsy, _rev is truthy, and update() fails locally
C10_Witness ==
    /\ settled.op = "update"
    /\ settled.data.id = <<TRUE, <<>>>>
    /\ Truthy(settled.data.rev[2])
    /\ C10_FailedLocally

\* C11: every public operation settles exactly once: when the transport
\* answers or fails each request and cache.get settles, the promise of a
\* call that was invoked is eventually resolved or rejected, and once it is
\* settled it is not settled again.
C11_SettlesOnce ==
    /\ \A i \in 1..MaxCalls :
          (calls[i].pc \in {"lookup", "http"})
              ~> (calls[i].pc = "done" /\ settled.out.state \in {"resolved", "rejected"})
    /\ [][ \A i \in 1..MaxCalls :
             /\ calls[i].pc = "done" => calls'[i] = calls[i]
             /\ (calls[i].pc # "done" /\ calls'[i].pc = "done") =>
                   /\ settled'.op # ""
                   /\ settled'.out.state \in {"resolved", "rejected"}
                   /\ settled'.sent \in {0, 1}
             /\ calls'[i] = calls[i] => (settled' = NoSettled \/ \E j \in 1..MaxCalls : calls'[j] # calls[j]) ]_vars

C11_Witness ==
    /\ settled.op = "mango"
    /\ settled.sent = 1
    /\ settled.out.state = "resolved"
    /\ \A i \in DOMAIN calls : calls[i].pc = "done"

\* C12: after del() has succeeded (the document is gone from the server,
\* which only a successful del() does here), a following get() that the
\* server answers about the document rejects with EDOCMISSING and the
\* error body of the response, also when the cache holds an entry of the
\* document and the request was conditional; nothing is written.
C12_GetAfterDel ==
    ( /\ Answered
      /\ settled.op = "get"
      /\ settled.res.ver = "gone"
      /\ settled.res.status \in {200, 304, 404} )
    => /\ settled.out.state = "rejected"
       /\ settled.out.code = "EDOCMISSING"
       /\ settled.out.data = settled.res.body
       /\ ~settled.set.called

C12_Witness ==
    /\ Answered
    /\ settled.op = "get" /\ settled.opts.qs = EmptyQuery
    /\ settled.res.ver = "gone"
    /\ OwnEntry(settled) /\ Truthy(settled.hit.body)
    /\ settled.headers = <<settled.hit.etag>>
    /\ settled.out.code = "EDOCMISSING"
    /\ settled.out.data # settled.hit.body

\* the request of a call of get() with query <<parameter, value>> is sent
C13_Sent(c) == c.op = "get" /\ c.pc = "http" /\ c.data = QueryData(c.data.query)

\* C13: get() sends key, keys, startkey and endkey as the JSON
\* serialization of the value the caller passed, and every other parameter
\* with the caller's value unchanged.
C13_QueryEncoding ==
    \A i \in DOMAIN calls :
        C13_Sent(calls[i]) =>
            /\ calls[i].opts.qs[1] = calls[i].data.query[1]
            /\ calls[i].opts.qs[2] =
                  (IF calls[i].data.query[1] \in {"key", "keys", "startkey", "endkey"}
                   THEN <<"json", calls[i].data.query[2]>>
                   ELSE calls[i].data.query[2])

C13_Witness ==
    \E i \in DOMAIN calls :
        /\ C13_Sent(calls[i])
        /\ calls[i].data.query = <<"startkey_docid", <<"Two">>>>
        /\ calls[i].opts.qs = <<"startkey_docid", <<"Two">>>>

\* C13: an encoded parameter on its way
C13_WitnessEncoded ==
    \E i \in DOMAIN calls :
        /\ C13_Sent(calls[i])
        /\ calls[i].data.query = <<"endkey", <<"C">>>>
        /\ calls[i].opts.qs = <<"endkey", Stringify(<<"C">>)>>

\* mango() has handled a response
MangoAnswered == Answered /\ settled.op = "mango"

\* the server header names a product and a major version below 2
ReportsOld(server) == Len(server) = 2 /\ server[2] < 2

\* C14 as claimed: mango() rejects with ESERVEROLD whenever the server
\* header reports a major version below 2, for every status.
C14_OldWhateverProduct ==
    (MangoAnswered /\ ReportsOld(settled.res.server))
    => /\ settled.out.state = "rejected"
       /\ settled.out.code = "ESERVEROLD"

\* C14 amended: mango() rejects with ESERVEROLD whenever the server header
\* is CouchDB/<major version below 2>, for every status of the response;
\* a header of another product, whatever version it reports, is rejected
\* with ESERVERNOTSUPPORTED and never with ESERVEROLD.
C14_OldCouchDB ==
    (MangoAnswered /\ ReportsOld(settled.res.server))
    => /\ settled.out.state = "rejected"
       /\ settled.out.data = Empty
       /\ settled.out.code =
             (IF settled.res.server[1] = "CouchDB" THEN "ESERVEROLD" ELSE "ESERVERNOTSUPPORTED")

C14_Witness ==
    /\ MangoAnswered
    /\ settled.res.server = <<"CouchDB", 1>>
    /\ settled.res.status = 200
    /\ settled.out.code = "ESERVEROLD"

\* C15: mango() rejects with ESERVERNOTSUPPORTED whenever the server
\* header is absent or does not match Product/majorVersion, for every
\* status; it never resolves and never rejects with another error then.
C15_NotSupported ==
    (MangoAnswered /\ Len(settled.res.server) < 2)
    => /\ settled.out.state = "rejected"
       /\ settled.out.code = "ESERVERNOTSUPPORTED"

\* operation op has handled a response
OpAnswered(op) == Answered /\ settled.op = op
\* the call is rejected with a RequestError of this code and the effective body
RejectedWith(code) ==
    /\ settled.out.state = "rejected"
    /\ settled.out.code = code
    /\ settled.out.data = EffectiveBody(settled.res.body, settled.hit.body)

\* C16: createDatabase() resolves when the server answers 201 and also when
\* it answers 202.
C16_CreatedOrAccepted ==
    (OpAnswered("createDatabase") /\ settled.res.status \in {201, 202})
    => settled.out.state = "resolved"

C18_DropDatabaseStatuses ==
    OpAnswered("dropDatabase") =>
        /\ settled.res.status \in {200, 202} => settled.out.state = "resolved"
        /\ settled.res.status = 404 => RejectedWith("EDBMISSING")
        /\ settled.res.status = 401 => RejectedWith("ENOTADMIN")

\* C19: get() and getAttachment() map every status to one outcome: 200 and
\* 304 resolve with the HTTP status, 404 rejects with EDOCMISSING, every
\* other status rejects with EUNKNOWN; no cache write on a rejected outcome.
C19_GetStatuses ==
    (Answered /\ settled.op \in Getters) =>
        /\ settled.res.status \in {200, 304} =>
              /\ settled.out.state = "resolved"
              /\ settled.out.status = settled.res.status
        /\ settled.res.status = 404 => RejectedWith("EDOCMISSING")
        /\ settled.res.status \notin {200, 304, 404} => RejectedWith("EUNKNOWN")
        /\ settled.out.state = "rejected" => ~settled.set.called

\* C20: insert, update and del reject with EBADREQUEST on 400,
\* EUNAUTHORIZED on 401 and EDOCCONFLICT on 409; update and del reject
\* with EDOCMISSING on 404; insert and update resolve exactly on 201 or
\* 202, del exactly on 200; every remaining status rejects with EUNKNOWN.
C20_ManipulationStatuses ==
    (Answered /\ settled.op \in {"insert", "update", "del"}) =>
        LET st == settled.res.status
            success == IF settled.op = "del" THEN {200} ELSE {201, 202}
        IN  /\ st = 400 => RejectedWith("EBADREQUEST")
            /\ st = 401 => RejectedWith("EUNAUTHORIZED")
            /\ st = 409 => RejectedWith("EDOCCONFLICT")
            /\ (st = 404 /\ settled.op # "insert") => RejectedWith("EDOCMISSING")
            /\ settled.out.state = "resolved" <=> st \in success
            /\ (st \notin success \cup {400, 401, 409}
                 /\ ~(st = 404 /\ settled.op # "insert")) => RejectedWith("EUNKNOWN")

\* C21: updateFunction() issues a PUT to .../_update/{fn}/{docId} when
\* docId is given and a POST to .../_update/{fn} when it is not; it
\* resolves on 200, 201 and 202, rejects with EDOCMISSING on 404 and with
\* EUNKNOWN on every other status.
C21_UpdateFunction ==
    /\ \A i \in DOMAIN calls :
          (calls[i].op = "updateFunction" /\ calls[i].pc = "http") =>
              /\ calls[i].opts.method = (IF calls[i].data.id[1] THEN "PUT" ELSE "POST")
              /\ calls[i].opts.url =
                    (IF calls[i].data.id[1] THEN "db/_design/d/_update/f/doc"
                     ELSE "db/_design/d/_update/f")
    /\ OpAnswered("updateFunction") =>
          /\ settled.res.status \in {200, 201, 202} =>
                settled.out = Resolved(settled.res.body, settled.res.status)
          /\ settled.res.status = 404 => RejectedWith("EDOCMISSING")
          /\ settled.res.status \notin {200, 201, 202, 404} => RejectedWith("EUNKNOWN")

C21_Witness ==
    /\ OpAnswered("updateFunction")
    /\ settled.data.id = <<TRUE, <<"doc">>>>
    /\ settled.opts.method = "PUT"
    /\ settled.res.status = 202
    /\ settled.out.state = "resolved"

\* what useCache(c) may change: the reference, and through invalidate()
\* the contents of the cache configured before, of no other cache
C22_Effect(c) ==
    /\ cache' = c
    /\ \A x \in CacheIds : x # cache => store'[x] = store[x]
    /\ cache # NoCache => store'[cache] \in {store[cache], EmptyStore}
    /\ UNCHANGED <<writes, ver, calls>>

\* C22: useCache(c) can be called in every state, with c a cache or null,
\* whether or not a cache is configured and whether invalidate() succeeds
\* or throws; it always ends with the cache reference equal to c and
\* invalidates nothing but the cache configured before.
C22_UseCache ==
    \A c \in CacheIds \cup {NoCache}, emptied \in BOOLEAN :
        /\ ENABLED useCache(c, emptied)
        /\ ~ENABLED (useCache(c, emptied) /\ ~C22_Effect(c))

\* the reference was replaced while invalidate() left the old cache's entries
C22_Witness ==
    /\ cache = "B"
    /\ \E k \in Keys : store["A"][k].found
    /\ \A i \in DOMAIN calls : calls[i].pc = "new"

\* C23: the handler is invoked once per change received from the server:
\* no change is delivered to the handler more than once.
C23_OncePerChange ==
    \A i \in DOMAIN calls :
        \A a, b \in DOMAIN calls[i].handled :
            (a # b /\ calls[i].handled[a] # NoChange) =>
                calls[i].handled[a] # calls[i].handled[b]

\* C24: the handler is invoked once with the null change before any change
\* of the server, and it is not invoked again after unsubscribe() has been
\* called.
C24_NullFirstNoneAfterUnsubscribe ==
    \A i \in DOMAIN calls :
        calls[i].pc \in {"open", "aborted"} =>
            /\ Len(calls[i].handled) > 0
            /\ \A k \in DOMAIN calls[i].handled :
                  calls[i].handled[k] = NoChange <=> k = 1
            /\ calls[i].unsubAt > 0 => Len(calls[i].handled) = calls[i].unsubAt

\* C25: on a client constructed without auth, changes() opens the feed,
\* invokes the handler with the null change and resolves its promise.
C25_AuthOptional ==
    \A i \in DOMAIN calls :
        (calls[i].auth = "null" /\ calls[i].pc # "new") =>
            /\ calls[i].pc \in {"open", "aborted"}
            /\ Len(calls[i].handled) > 0 /\ calls[i].handled[1] = NoChange
            /\ calls[i].out.state = "resolved"

\* C26: insertAttachment, getAttachment and delAttachment called with the
\* same database, document and attachment name send their requests to
\* the same URL.
C26_SameAttachmentUrl ==
    \A i \in DOMAIN calls :
        ( /\ calls[i].pc = "http"
          /\ calls[i].op \in {"insertAttachment", "getAttachment", "delAttachment"} )
        => calls[i].opts.url = AttUrl

\* C27: every entry written to the cache pairs the ETag and the body of
\* the one 200 response that triggered the write, also when the cache held
\* an entry for the key before the request.
C27_EntryOfOneResponse ==
    \A w \in writes :
        \E op \in CacheableOpts, v \in LiveVersions :
            /\ w.key = _getCacheKey(op)
            /\ w.entry.etag = ETagOf(op.url, op.qs, v)
            /\ w.entry.body = BodyOf(op.url, op.qs, v)

\* C28: a get() that is passed the query object of the get() before it
\* sends the same value of every parameter as that call did: the encoding
\* of key, keys, startkey and endkey does not accumulate in the object.
C28_SameObjectSameRequest ==
    [][ \A i \in DOMAIN calls :
            ( /\ calls[i].pc = "new"
              /\ calls'[i].pc = "lookup"
              /\ settled.op = "get"
              /\ calls'[i].data.query = settled.opts.qs )
            => calls'[i].opts.qs = settled.opts.qs ]_vars

\* what the handler of a get() answered 200 did with the cache
C29_Handled ==
    ( /\ settled.op = "get"
      /\ settled.sent = 1
      /\ settled.res.err = ""
      /\ settled.res.status = 200 )
    => /\ settled.set.called <=> cache # NoCache
       /\ settled.set.called => settled.set.cache = cache
       /\ settled.set.result = "accepted"
            => [cache |-> cache, key |-> settled.set.key,
                entry |-> settled.set.entry] \in writes

\* C29: the handler of a get() answered 200 calls cache.set exactly when a
\* cache is configured at that moment, and on that cache: not on the cache
\* the lookup was made on if useCache replaced it meanwhile, on no cache if
\* it was replaced by null, and on the cache configured meanwhile if the
\* call was made without one.
C29_WriteToCurrentCache ==
    /\ []C29_Handled
    /\ [][\A w \in writes' \ writes : w.cache = cache' /\ cache' # NoCache]_vars

C29_Witness ==
    /\ settled.op = "get"
    /\ settled.res.status = 200
    /\ settled.on = "A"
    /\ cache = "B"
    /\ settled.set.called
    /\ settled.set.cache = "B"
    /\ \E w \in writes : w.cache = "B" /\ w.entry = settled.set.entry

\* what a rejection of cache.get does to call i
C30_Effect(i) ==
    /\ calls'[i].pc = "done"
    /\ settled'.op = calls[i].op
    /\ settled'.out = Rejected(CacheGetError, Empty)
    /\ settled'.sent = 0
    /\ ~settled'.set.called
    /\ writes' = writes
    /\ store' = store

\* C30: when cache.get rejects during a GET operation, the operation's
\* promise rejects with the cache's error, no HTTP request is sent and
\* cache.set is not called.
C30_CacheGetRejection ==
    /\ \A i \in DOMAIN calls :
          (calls[i].pc = "lookup" /\ calls[i].on # NoCache)
          => /\ calls[i].op \in GetOps
             /\ ENABLED CacheGetRejects(i)
             /\ ~ENABLED (CacheGetRejects(i) /\ ~C30_Effect(i))
    /\ (settled.out.state = "rejected" /\ settled.out.code = CacheGetError)
          => settled.sent = 0 /\ ~settled.set.called

C30_Witness ==
    /\ settled.op = "get"
    /\ settled.on = "A"
    /\ settled.out = Rejected(CacheGetError, Empty)
    /\ settled.sent = 0
    /\ ~settled.set.called

====
